---------------------------- MODULE Spec2Model ----------------------------
(***************************************************************************)
(* A model of src/binance.js: the BinanceClient of npm-binance-api.        *)
(*                                                                         *)
(* The client routes a method name to publicMethod or privateMethod,       *)
(* builds the request and hands it to rawRequest, which calls the `got`    *)
(* transport and normalises the exchange's error list.                     *)
(*                                                                         *)
(* Conventions of the model                                                *)
(*  - A JavaScript string whose characters matter (the entries of          *)
(*    response.error and the messages made of them) is a sequence of       *)
(*    one-character strings.  Every other string is an atom, and a         *)
(*    concatenation a + b + c of atoms is the sequence <<a, b, c>> of its  *)
(*    pieces.                                                              *)
(*  - A params object is an ordered mapping: a sequence of <<key, value>>  *)
(*    pairs in insertion order, with distinct keys.                        *)
(*  - The object literal `defaults` (lines 12-17) lacks the comma after    *)
(*    api_exchange_public; the model reads it as the four properties it    *)
(*    lists.  The function bodies are modelled as written.                 *)
(***************************************************************************)
EXTENDS Integers, Sequences, FiniteSets, TLC

VARIABLES
    config,      \* this.config of the one client instance
    clock,       \* the wall clock, in milliseconds (new Date())
    shared,      \* a params object the caller keeps and may pass again
    calls,       \* the history of calls made on the client, one record each
    transport,   \* the requests handed to got(), in order (the transport spy)
    response,    \* normaliser runs: a parsed response body
    normalized   \* normaliser runs: what lines 44-56 made of `response`

vars == <<config, clock, shared, calls, transport, response, normalized>>

(***************************************************************************)
(* Bounds of the model.                                                    *)
(***************************************************************************)
MaxCalls == 2
MaxTicks == 1
MaxErrLen == 3

(***************************************************************************)
(* JavaScript values.                                                      *)
(***************************************************************************)
Undefined == "<undefined>"

\* String(v) for the values concatenated at line 23.
JsString(v) == IF v = Undefined THEN "undefined" ELSE v

Range(s) == { s[i] : i \in DOMAIN s }

\* Ordered mappings.
Keys(p) == { p[i][1] : i \in DOMAIN p }
Has(p, k) == k \in Keys(p)
Get(p, k) == IF Has(p, k) THEN (CHOOSE e \in Range(p) : e[1] = k)[2] ELSE Undefined
Put(p, k, v) ==
    IF Has(p, k) THEN [i \in DOMAIN p |-> IF p[i][1] = k THEN <<k, v>> ELSE p[i]]
    ELSE Append(p, <<k, v>>)

(***************************************************************************)
(* Lines 6-9: the method names.                                            *)
(***************************************************************************)
methods ==
    [ public  |-> {"ping", "time", "depth", "aggTrades", "klines", "ticker",
                   "ticker/24hr"},
      private |-> {"order", "order/test", "account", "openOrders", "allOrders",
                   "myTrades", "userDataStream"} ]

(***************************************************************************)
(* Lines 12-17: the default options.                                       *)
(***************************************************************************)
defaults ==
    [ url |-> "https://binance.com",
      api_v1 |-> "/api/v1/",
      api_exchange_public |-> "/exchange/public/",
      timeout |-> 5000 ]

(***************************************************************************)
(* Lines 68-75: the constructor.  options is undefined, a string (the OTP) *)
(* or an object; Object.assign lays {key, secret}, defaults and options    *)
(* over one another.                                                       *)
(***************************************************************************)
Constructor(key, secret, options) ==
    LET opts == IF options.type = "string" THEN [type |-> "object", otp |-> options.otp]
                ELSE options
    IN  [ key |-> key,
          secret |-> secret,
          url |-> defaults.url,
          api_v1 |-> defaults.api_v1,
          api_exchange_public |-> defaults.api_exchange_public,
          timeout |-> defaults.timeout,
          otp |-> IF opts.type = "object" THEN opts.otp ELSE Undefined ]


(***************************************************************************)
(* Errors.  The code throws plain Error objects told apart by message; the *)
(* runtime throws ReferenceError and TypeError; got() rejects with its own *)
(* error, called TransportError here.                                      *)
(***************************************************************************)
NoError == [name |-> "none", message |-> <<>>]
MkError(name, message) == [name |-> name, message |-> message]

\* Line 98: new Error(method + ' is not a valid API method.')
InvalidMethodError(method) == MkError("Error", <<method, " is not a valid API method.">>)

\* Line 24: `date` is not declared anywhere, so evaluating date.now() throws.
DateReferenceError == MkError("ReferenceError", <<"date is not defined">>)

\* Line 164: `url` is declared const at line 148, so assigning to it throws.
ConstAssignError == MkError("TypeError", <<"Assignment to constant variable.">>)

\* Line 41: got() rejects (connection failure, timeout, non-2xx status).
TransportError == MkError("TransportError", <<"request failed">>)

(***************************************************************************)
(* Library functions, by what they do on the values the code gives them.   *)
(***************************************************************************)
\* encodeURIComponent(data) at lines 23, 26 and 161 is given an object: the
\* object is first converted to the string "[object Object]", whatever its
\* properties, and then "[", " " and "]" are percent-encoded.
EncodeURIComponent(data) == "%5Bobject%20Object%5D"

\* crypto.createHash('sha256').update(s).digest('hex'): a one-way function
\* of the string, kept symbolic (equal inputs give equal digests, different
\* inputs different ones).
Sha256Hex(pieces) == <<"sha256", pieces>>

\* qs.stringify(data) at line 38: key=value pairs in insertion order.
\* Numbers (the nonce) are written in decimal.
QsValue(k, v) == IF k = "nonce" THEN ToString(v) ELSE v
QsStringify(data) ==
    [i \in DOMAIN data |-> <<data[i][1], "=", QsValue(data[i][1], data[i][2])>>]

(***************************************************************************)
(* Lines 20-27: signRequestData.  The digest is computed at line 23; line  *)
(* 24 then throws before timestamp or signature is stored in data.         *)
(***************************************************************************)
signRequestData(data, api_secret) ==
    [ hash_digest |-> Sha256Hex(<<EncodeURIComponent(data), "|", JsString(api_secret)>>),
      data |-> data,
      thrown |-> DateReferenceError ]

(***************************************************************************)
(* Lines 30-41: rawRequest up to the await.  An async function runs        *)
(* synchronously until its first await, so got() is called during the call *)
(* of rawRequest.                                                          *)
(***************************************************************************)
RawRequestHeadersAlt(headers, cfg) == headers \cup {<<"User-Agent", cfg.secret>>}
RawRequestHeaders(headers, cfg) ==
    {h \in headers : h[1] # "User-Agent"}
        \cup {<<"User-Agent", "Binance Javascript API Client">>}

rawRequest(url, headers, data, timeout, cfg) ==
    [ url |-> url,
      headers |-> RawRequestHeaders(headers, cfg),
      method |-> "POST",
      body |-> QsStringify(data),
      timeout |-> timeout ]

NoRequest == [url |-> <<>>, headers |-> {}, method |-> "none", body |-> <<>>, timeout |-> 0]


(***************************************************************************)
(* Arguments of a call.  params is an object (a literal, or the caller's   *)
(* own object passed by reference), a function (the callback given in the  *)
(* place of params) or undefined; callback is a function or undefined.     *)
(***************************************************************************)
EmptyObject == [type |-> "object", ref |-> FALSE, val |-> <<>>]
IsFunction(callback) == callback = "function"

\* Lines 86-89, 113-116, 142-145: a function in the place of params is the
\* callback, and params is then a new empty object.
ShiftParams(params) == IF params.type = "function" THEN EmptyObject ELSE params
ShiftCallback(params, callback) == IF params.type = "function" THEN "function" ELSE callback

\* Lines 110, 139: params = params || {}
OrEmpty(params) == IF params.type = "undefined" THEN EmptyObject ELSE params

\* The record kept of one call.
\*   at          the clock when line 151 read it, 0 when the line was not reached
\*   nonce       params.nonce after line 152, -1 when the line was not reached
\*   hash_digest the digest of line 23, <<>> when none was computed
\*   thrown      the exception the call threw synchronously, or NoError
\*   promise     the state of the returned promise, "none" when none was returned
\*   reason      the rejection reason of the returned promise
\*   cbCalls     the invocations of the callback: "result" or "error" each
\*   req         the index in `transport` of the request of this call, 0 if none
NewCall(via, method, params, callback, signed) ==
    [ via |-> via, method |-> method, params |-> params.val,
      callback |-> IsFunction(callback), signed |-> signed, at |-> 0,
      nonce |-> -1, hash_digest |-> <<>>, thrown |-> NoError,
      promise |-> "none", reason |-> NoError,
      cbCalls |-> <<>>, req |-> 0 ]

\* What a method of the client did: the record of the call, the request it
\* handed to the transport (NoRequest if none) and the params object as the
\* method left it (the caller sees it when the object was passed by reference).
Outcome(call, request, obj) == [call |-> call, request |-> request, obj |-> obj]

(***************************************************************************)
(* Lines 109-129: publicMethod.                                            *)
(***************************************************************************)
PublicPath(method) == <<"/api/v1/", method>>

PublicHeadersAlt(cfg) == {<<"X-MBX-APIKEY", cfg.key>>}
PublicHeaders(cfg) == {}

publicMethod(cfg, via, method, params0, callback0, now) ==
    LET p1       == OrEmpty(params0)
        callback == ShiftCallback(p1, callback0)
        params   == ShiftParams(p1)
        url      == <<cfg.url>> \o PublicPath(method)
        request  == rawRequest(url, PublicHeaders(cfg), params.val, cfg.timeout, cfg)
    IN  Outcome([NewCall(via, method, params, callback, FALSE)
                    EXCEPT !.promise = "pending", !.req = Len(transport) + 1],
                request, params)

(***************************************************************************)
(* Lines 138-180: privateMethod.                                           *)
(***************************************************************************)
\* Lines 150-152: a missing (or falsy, such as 0) nonce is set from the
\* clock in milliseconds times 1000.
WithNonceAlt(params, now) == Put(params, "nonce", now * 1000)
WithNonce(params, now) ==
    IF ~Has(params, "nonce") \/ Get(params, "nonce") = 0
    THEN Put(params, "nonce", now * 1000)
    ELSE params

\* Lines 154-156.
WithOtp(params, cfg) ==
    IF cfg.otp # Undefined THEN Put(params, "otp", cfg.otp) ELSE params

privateMethod(cfg, via, method, params0, callback0, signed, now) ==
    LET p1       == OrEmpty(params0)
        callback == ShiftCallback(p1, callback0)
        params   == ShiftParams(p1)
        obj      == WithOtp(WithNonce(params.val, now), cfg)
        sig      == signRequestData(obj, cfg.secret)
        call     == [NewCall(via, method, params, callback, signed)
                        EXCEPT !.at = now, !.nonce = Get(obj, "nonce")]
    IN  IF signed
        THEN \* line 159: signRequestData throws at line 24
             Outcome([call EXCEPT !.hash_digest = sig.hash_digest, !.thrown = sig.thrown],
                     NoRequest, [params EXCEPT !.val = sig.data])
        ELSE \* line 161 encodes the params; line 164 assigns to the const url
             Outcome([call EXCEPT !.thrown = ConstAssignError],
                     NoRequest, [params EXCEPT !.val = obj])

(***************************************************************************)
(* Lines 84-100: api.                                                      *)
(***************************************************************************)
IsPublicAlt(method) == method \notin methods.private
IsPublic(method) == method \in methods.public
IsPrivate(method) == method \in methods.private

api(cfg, method, params0, callback0, now) ==
    LET callback == ShiftCallback(params0, callback0)
        params   == ShiftParams(params0)
    IN  IF IsPublic(method) THEN publicMethod(cfg, "api", method, params, callback, now)
        ELSE IF IsPrivate(method)
        THEN privateMethod(cfg, "api", method, params, callback, FALSE, now)
        ELSE Outcome([NewCall("api", method, params, callback, FALSE)
                        EXCEPT !.thrown = InvalidMethodError(method)],
                     NoRequest, params)


(***************************************************************************)
(* Lines 42-56: the response normaliser of rawRequest.  A parsed body is   *)
(* [error |-> e, result |-> r] where e.kind tells what the error field is: *)
(* "absent", "array" (e.items its entries), "string" (e.items its          *)
(* characters) or "object" (a plain object, which has no length).          *)
(***************************************************************************)
RECURSIVE Join(_, _)
\* Array.prototype.join
Join(list, sep) ==
    IF list = <<>> THEN <<>>
    ELSE IF Len(list) = 1 THEN list[1]
    ELSE list[1] \o sep \o Join(Tail(list), sep)

\* e.startsWith('E')
StartsWithE(e) == Len(e) >= 1 /\ e[1] = "E"

\* e.substr(1)
Substr1Alt(e) == IF Len(e) >= 2 THEN SubSeq(e, 3, Len(e)) ELSE <<>>
Substr1(e) == SubSeq(e, 2, Len(e))

\* Line 44: response.error && response.error.length
HasErrorsAlt(e) == e.kind # "absent"
HasErrors(e) == e.kind \in {"array", "string"} /\ Len(e.items) > 0

UnknownErrorMessage == <<"Binance API returned an unknown error">>

\* What rawRequest ends with: it returns the body, or it throws.
Nothing == [error |-> [kind |-> "absent", items |-> <<>>], result |-> "<nothing>"]
Returned(body) == [ok |-> TRUE, value |-> body, error |-> NoError]
Thrown(error) == [ok |-> FALSE, value |-> Nothing, error |-> error]

Normalize(body) ==
    IF HasErrors(body.error)
    THEN IF body.error.kind = "string"
         THEN \* a string has no filter method
              Thrown(MkError("TypeError", <<"response.error.filter is not a function">>))
         ELSE LET kept  == SelectSeq(body.error.items, StartsWithE)
                  error == [i \in DOMAIN kept |-> Substr1(kept[i])]
              IN  IF Len(error) = 0
                  THEN Thrown(MkError("Error", UnknownErrorMessage))
                  ELSE Thrown(MkError("Error", Join(error, <<",", " ">>)))
    ELSE Returned(body)

(***************************************************************************)
(* Inputs of the model.                                                    *)
(***************************************************************************)
CallMethods == {"ping", "order", "withdraw"}
Callbacks == {"function", "undefined"}
\* A nonce a caller puts in its params, and the clock (ms) at construction.
CallerNonce == 1500
StartClock == 1

FreshParams ==
    { <<>>,
      << <<"symbol", "BTCUSDT">>, <<"nonce", CallerNonce>> >> }

ParamsArgs ==
    { [type |-> "object", ref |-> FALSE, val |-> v] : v \in FreshParams }
        \cup { [type |-> "object", ref |-> TRUE, val |-> shared],
               [type |-> "function", ref |-> FALSE, val |-> <<>>],
               [type |-> "undefined", ref |-> FALSE, val |-> <<>>] }

\* new BinanceClient(key, secret, options): without a secret, with one, and
\* with the one-time password as the third argument.
NoOptions == [type |-> "undefined", otp |-> Undefined]
Clients ==
    { <<"key", Undefined, NoOptions>>,
      <<"key", "s3cr3t", NoOptions>>,
      <<"key", "s3cr3t", [type |-> "string", otp |-> "123456"]>> }

Chars(n) ==
    CASE n = "E-1013" -> <<"E", "-", "1", "0", "1", "3">>
      [] n = "Einvalid quantity" ->
            <<"E", "i", "n", "v", "a", "l", "i", "d", " ",
              "q", "u", "a", "n", "t", "i", "t", "y">>
      [] n = "warn-only" -> <<"w", "a", "r", "n", "-", "o", "n", "l", "y">>
      [] n = "E" -> <<"E">>
      [] n = "" -> <<>>

NoErrorField == [kind |-> "absent", items |-> <<>>]
ErrorArray(items) == [kind |-> "array", items |-> items]
Body(e) == [error |-> e, result |-> "result"]

\* The responses the transport gives in the client runs.
SettleBodies ==
    { Body(NoErrorField), Body(ErrorArray(<<>>)), Body(ErrorArray(<<Chars("E-1013")>>)) }

\* What got() does with a request: it fails, or it gives a body.
TransportFailure == Body([kind |-> "failure", items |-> <<>>])
Answers == {TransportFailure} \cup SettleBodies

\* Whether the caller's callback throws when called (no callback: no matter).
CallbackBehaviours(call) == IF call.callback THEN BOOLEAN ELSE {FALSE}

(***************************************************************************)
(* The client: construction, calls, the clock and the transport's answers. *)
(***************************************************************************)
NoBody == Body(NoErrorField)

Init ==
    /\ \E c \in Clients : config = Constructor(c[1], c[2], c[3])
    /\ clock = StartClock
    /\ shared = << <<"symbol", "BTCUSDT">>, <<"nonce", 0>> >>
    /\ calls = <<>>
    /\ transport = <<>>
    /\ response = NoBody
    /\ normalized = Returned(NoBody)

Record(o) ==
    /\ calls' = Append(calls, o.call)
    /\ transport' = IF o.request # NoRequest THEN Append(transport, o.request)
                    ELSE transport
    /\ shared' = IF o.obj.ref THEN o.obj.val ELSE shared
    /\ UNCHANGED <<config, clock, response, normalized>>

\* The caller calls client.api(method, params, callback).
CallApi ==
    /\ Len(calls) < MaxCalls
    /\ \E method \in CallMethods, params \in ParamsArgs, callback \in Callbacks :
          Record(api(config, method, params, callback, clock))

\* The caller calls client.privateMethod(method, params, callback, true): the
\* only way to ask for a signature, as api() leaves `signed` at its default.
CallPrivateMethod ==
    /\ Len(calls) < MaxCalls
    /\ \E method \in CallMethods \cap methods.private, params \in ParamsArgs,
          callback \in Callbacks :
          Record(privateMethod(config, "privateMethod", method, params, callback,
                               TRUE, clock))

\* Lines 122-126 and 173-177: response.then(cb-with-result).catch(cb-with-error).
\* A callback that throws in the then-handler rejects the chained promise, so
\* the catch-handler calls it again, with its own exception.
CallbackCalls(call, ok, cbThrows) ==
    IF ~call.callback THEN <<>>
    ELSE IF ok THEN (IF cbThrows THEN <<"result", "error">> ELSE <<"result">>)
    ELSE <<"error">>

\* The transport answers the request of call i (line 41) and rawRequest
\* finishes (lines 42-56): the returned promise settles and the handlers run.
Settle(i) ==
    /\ calls[i].promise = "pending"
    /\ \E answer \in Answers, cbThrows \in CallbackBehaviours(calls[i]) :
          LET r == IF answer = TransportFailure THEN Thrown(TransportError)
                   ELSE Normalize(answer)
          IN  calls' = [calls EXCEPT ![i] =
                  [@ EXCEPT !.promise = IF r.ok THEN "fulfilled" ELSE "rejected",
                            !.reason = r.error,
                            !.cbCalls = CallbackCalls(calls[i], r.ok, cbThrows)]]
    /\ UNCHANGED <<config, clock, shared, transport, response, normalized>>

Tick ==
    /\ clock < StartClock + MaxTicks
    /\ clock' = clock + 1
    /\ UNCHANGED <<config, shared, calls, transport, response, normalized>>

Next ==
    \/ CallApi
    \/ CallPrivateMethod
    \/ \E i \in DOMAIN calls : Settle(i)
    \/ Tick

Spec == Init /\ [][Next]_vars


(***************************************************************************)
(* The response normaliser on its own: a parsed body is drawn, and lines   *)
(* 44-56 are applied to it.                                                *)
(***************************************************************************)
ErrEntries == { Chars(n) : n \in {"E-1013", "Einvalid quantity", "warn-only", "E", ""} }

SeqsUpTo(S, n) == UNION { [1..k -> S] : k \in 0..n }

ErrorFields ==
    { NoErrorField, [kind |-> "object", items |-> <<>>] }
        \cup { ErrorArray(items) : items \in SeqsUpTo(ErrEntries, MaxErrLen) }
        \cup { [kind |-> "string", items |-> e] : e \in ErrEntries }

NotNormalized == [ok |-> FALSE, value |-> Nothing, error |-> NoError]

InitNorm ==
    /\ config = Constructor("key", "s3cr3t", NoOptions)
    /\ clock = StartClock
    /\ shared = <<>>
    /\ calls = <<>>
    /\ transport = <<>>
    /\ response \in { Body(e) : e \in ErrorFields }
    /\ normalized = NotNormalized

NormalizeResponse ==
    /\ normalized = NotNormalized
    /\ normalized' = Normalize(response)
    /\ UNCHANGED <<config, clock, shared, calls, transport, response>>

NextNorm == NormalizeResponse

SpecNorm == InitNorm /\ [][NextNorm]_vars


(***************************************************************************)
(* Properties of the client.                                               *)
(***************************************************************************)
Private(c) == c.nonce # -1
Failed(c) == c.thrown # NoError \/ c.promise = "rejected"
Invoked(c) == c.req # 0
Count(seq, x) == Cardinality({ k \in DOMAIN seq : seq[k] = x })
BodyKeys(request) == { request.body[k][1] : k \in DOMAIN request.body }

\* C1: a call of api() with a method name in neither set throws the "is not
\* a valid API method" error during the call, with or without a callback and
\* whatever the params, and it hands no request to the transport: the spy
\* holds exactly the requests of the other calls.
C1_InvalidMethodThrowsBeforeAnyRequest ==
    /\ \A i \in DOMAIN calls :
          (calls[i].via = "api" /\ calls[i].method \notin methods.public \cup methods.private)
              => /\ calls[i].thrown = InvalidMethodError(calls[i].method)
                 /\ ~Invoked(calls[i])
                 /\ calls[i].promise = "none"
                 /\ calls[i].cbCalls = <<>>
    /\ Len(transport) = Cardinality({ i \in DOMAIN calls : Invoked(calls[i]) })
    /\ \A k \in DOMAIN transport :
          transport[k].url[3] \in methods.public \cup methods.private

\* C1 witness: two invalid calls were made, one with a callback and params,
\* one without a callback, and the transport was never invoked.
C1_Witness ==
    /\ Len(calls) = 2
    /\ \A i \in DOMAIN calls : calls[i].method = "withdraw"
    /\ calls[1].callback /\ calls[1].params # <<>>
    /\ ~calls[2].callback
    /\ transport = <<>>

\* C2: the request api() hands to the transport for a public method has the
\* URL base url + '/api/v1/' + method, no X-MBX-APIKEY header and no
\* signature parameter: its body is made of the caller's params alone.
C2_PublicRequestUnsigned ==
    \A i \in DOMAIN calls :
        (calls[i].via = "api" /\ calls[i].method \in methods.public)
            => /\ Invoked(calls[i])
               /\ LET request == transport[calls[i].req]
                  IN  /\ request.url = <<config.url, "/api/v1/", calls[i].method>>
                      /\ \A h \in request.headers : h[1] # "X-MBX-APIKEY"
                      /\ "signature" \notin BodyKeys(request)
                      /\ BodyKeys(request) = Keys(calls[i].params)
                      /\ Len(request.body) = Len(calls[i].params)

\* C2 witness: api('ping', {}) on a client with a key and a secret reached
\* the transport with an empty body, and a public call with params did too.
C2_Witness ==
    /\ config.secret # Undefined
    /\ \E i \in DOMAIN calls :
          /\ calls[i].method = "ping" /\ calls[i].params = <<>>
          /\ Invoked(calls[i]) /\ transport[calls[i].req].body = <<>>
    /\ \E i \in DOMAIN calls :
          /\ calls[i].method = "ping" /\ calls[i].params # <<>>
          /\ Invoked(calls[i])

\* C3: two signed private calls of the same method with the same params,
\* made at different moments (so with different nonces), compute different
\* signature digests.
C3_SignaturesDiffer ==
    \A i, j \in DOMAIN calls :
        ( /\ i < j
          /\ config.secret # Undefined
          /\ calls[i].signed /\ calls[j].signed
          /\ calls[i].method = calls[j].method
          /\ calls[i].params = calls[j].params
          /\ calls[i].at # calls[j].at
          /\ calls[i].nonce # calls[j].nonce )
            => calls[i].hash_digest # calls[j].hash_digest

C5_MissingCredentials ==
    \A i \in DOMAIN calls :
        (calls[i].signed /\ config.secret = Undefined)
            => calls[i].thrown.name = "MissingCredentials" /\ ~Invoked(calls[i])

\* C6: a call that ended in an error delivered it exactly once: by throwing,
\* by the rejection of the returned promise, or by one invocation of the
\* callback with an error.
ErrorDeliveries(c) ==
    (IF c.thrown # NoError THEN 1 ELSE 0)
        + (IF c.promise = "rejected" THEN 1 ELSE 0)
        + Count(c.cbCalls, "error")

C6_ErrorSurfacedExactlyOnce ==
    \A i \in DOMAIN calls : Failed(calls[i]) => ErrorDeliveries(calls[i]) = 1

\* C9: on a client with a secret, a call of a private method (api('order',
\* params) among them) hands the transport a request whose params include
\* nonce, timestamp and signature.
C9_PrivateRequestSigned ==
    \A i \in DOMAIN calls :
        (calls[i].method \in methods.private /\ config.secret # Undefined)
            => /\ Invoked(calls[i])
               /\ {"nonce", "timestamp", "signature"}
                     \subseteq BodyKeys(transport[calls[i].req])

\* The private calls of the history, in order.
PrivateCalls == SelectSeq(calls, Private)

NonceGiven(c) == Has(c.params, "nonce") /\ Get(c.params, "nonce") # 0

\* The nonce rule of lines 150-152.
NonceRule(c) ==
    IF NonceGiven(c) THEN c.nonce = Get(c.params, "nonce")
    ELSE c.nonce = c.at * 1000

\* C10 as stated: the nonce of every private request is greater than the
\* nonce of the private request before it; a nonce in the params is kept and
\* one is made from the clock only when none is there.
C10_NonceStrictlyIncreasing ==
    /\ \A k \in DOMAIN PrivateCalls : NonceRule(PrivateCalls[k])
    /\ \A k \in DOMAIN PrivateCalls :
          k > 1 => PrivateCalls[k].nonce > PrivateCalls[k - 1].nonce

\* C10 amended: a non-zero nonce in the params is kept, and otherwise the
\* nonce is the clock's milliseconds times 1000; the nonce is greater than
\* that of the private request before it when both were made from the clock
\* and the clock advanced in between (nothing is promised otherwise).
C10_NonceFromClockUnlessGiven ==
    /\ \A k \in DOMAIN PrivateCalls : NonceRule(PrivateCalls[k])
    /\ \A k \in DOMAIN PrivateCalls :
          ( /\ k > 1
            /\ ~NonceGiven(PrivateCalls[k]) /\ ~NonceGiven(PrivateCalls[k - 1])
            /\ PrivateCalls[k].at > PrivateCalls[k - 1].at )
              => PrivateCalls[k].nonce > PrivateCalls[k - 1].nonce

\* C10 witness: a private call took its nonce from the clock after a tick,
\* and the next one kept the lower nonce its caller gave.
C10_Witness ==
    /\ Len(PrivateCalls) = 2
    /\ ~NonceGiven(PrivateCalls[1])
    /\ PrivateCalls[1].nonce = (StartClock + 1) * 1000
    /\ NonceGiven(PrivateCalls[2])
    /\ PrivateCalls[2].nonce = CallerNonce


(***************************************************************************)
(* Properties of the response normaliser (under SpecNorm).                 *)
(***************************************************************************)
Normalized == normalized # NotNormalized
ErrorsOf(body) == body.error.items
IsArray(body) == body.error.kind = "array"
Prefixed(items) == { k \in DOMAIN items : items[k] # <<>> /\ Head(items[k]) = "E" }

\* The message the claims describe: the entries that start with "E", in
\* their order, each without its first character, separated by ", ".
RECURSIVE MessageOf(_)
MessageOf(items) ==
    IF items = <<>> THEN <<>>
    ELSE LET rest == MessageOf(Tail(items))
             e    == Head(items)
         IN  IF e = <<>> \/ Head(e) # "E" THEN rest
             ELSE IF Prefixed(Tail(items)) = {} THEN Tail(e)
             ELSE Tail(e) \o <<",", " ">> \o rest

RemoteApiError(outcome) == ~outcome.ok /\ outcome.error.name = "Error"

\* A non-empty array of errors is thrown as one Error: with the generic
\* message when no entry starts with "E", else with the message of the
\* prefixed entries.
NonEmptyArrayThrown ==
    (IsArray(response) /\ ErrorsOf(response) # <<>>)
        => /\ RemoteApiError(normalized)
           /\ Prefixed(ErrorsOf(response)) = {}
                 => normalized.error.message = UnknownErrorMessage
           /\ Prefixed(ErrorsOf(response)) # {}
                 => normalized.error.message # UnknownErrorMessage

\* C7 as stated: the body is returned unchanged when it has no error field;
\* a non-empty array of errors is thrown; and a body whose error field is
\* present, empty or malformed ones included, is never returned as a success.
C7_PresentErrorNeverSuccess ==
    Normalized =>
        /\ response.error.kind = "absent" => normalized = Returned(response)
        /\ NonEmptyArrayThrown
        /\ response.error.kind # "absent" => ~normalized.ok

\* C7 amended: the body is returned unchanged when it has no error field or
\* an error field without a non-zero length (an empty array, an empty
\* string, an object); a non-empty array of errors is thrown, with the
\* generic message when no entry starts with "E".
C7_EmptyErrorIsSuccess ==
    Normalized =>
        /\ ( \/ response.error.kind \in {"absent", "object"}
             \/ ErrorsOf(response) = <<>> ) => normalized = Returned(response)
        /\ NonEmptyArrayThrown

\* C7 witness: the body {"error": []} was normalised.
C7_Witness ==
    /\ Normalized
    /\ response = Body(ErrorArray(<<>>))

ExampleErrors == <<Chars("E-1013"), Chars("Einvalid quantity")>>

\* C8 general part: the message is made of the prefixed entries, in order,
\* each without its first character, joined by ", ".
PrefixedEntriesJoined ==
    (Normalized /\ IsArray(response) /\ Prefixed(ErrorsOf(response)) # {})
        => /\ RemoteApiError(normalized)
           /\ normalized.error.message = MessageOf(ErrorsOf(response))

\* C8 as stated: the general part, and ["E-1013", "Einvalid quantity"] gives
\* the message "1013, invalid quantity".
C8_ExampleWithoutDash ==
    /\ PrefixedEntriesJoined
    /\ (Normalized /\ response = Body(ErrorArray(ExampleErrors)))
          => normalized.error.message =
                <<"1", "0", "1", "3", ",", " ", "i", "n", "v", "a", "l", "i", "d", " ",
                  "q", "u", "a", "n", "t", "i", "t", "y">>

\* C8 amended: the general part with the one-character prefix "E", so that
\* ["E-1013", "Einvalid quantity"] gives the message "-1013, invalid quantity".
C8_ExampleWithDash ==
    /\ PrefixedEntriesJoined
    /\ (Normalized /\ response = Body(ErrorArray(ExampleErrors)))
          => normalized.error.message =
                <<"-", "1", "0", "1", "3", ",", " ", "i", "n", "v", "a", "l", "i", "d", " ",
                  "q", "u", "a", "n", "t", "i", "t", "y">>

\* C8 witness: the body {"error": ["E-1013", "Einvalid quantity"]} was
\* normalised.
C8_Witness ==
    /\ Normalized
    /\ response = Body(ErrorArray(ExampleErrors))

=============================================================================
